---- MODULE Spec2Model ----
(***************************************************************************)
(* The accordion widget of src/accordion.js as a state machine.            *)
(*                                                                         *)
(* One accordion instance on one root element.  The state is the part of   *)
(* the DOM the instance reads and writes (per item: the active class, the  *)
(* trigger's aria-expanded, the content's hidden flag, inline height and   *)
(* opacity, and its aria-hidden attribute), the browser's queue of         *)
(* requestAnimationFrame callbacks, and the once-listeners for             *)
(* transitionend registered on every content element.                      *)
(*                                                                         *)
(* Spec is that instance under calls, clicks, frames and transitionend     *)
(* events.  SpecPage is the page around it: document loading, the          *)
(* module-level auto-init, initAccordions, the MutationObserver, destroy,  *)
(* and the click and keydown listeners.  SpecWidget is a widget generated  *)
(* from the component template of src/unnamed/part_000.  SpecOptions is    *)
(* the merge of data attributes and constructor options.  SpecMalformed is *)
(* the instance on markup whose items may lack a trigger or a content.     *)
(* SpecIds is the construction of either widget with the ids it assigns.   *)
(* SpecDirect is a loaded page whose own code constructs, scans and        *)
(* destroys, also on a root that is registered already.                    *)
(***************************************************************************)
EXTENDS Integers, Sequences, FiniteSets, TLC

\* Number of .ds-accordion__item elements under the root.
NItems == 2
\* Cap on the frame callbacks plus transitionend listeners pending at once:
\* what one animated open with its cascade schedules.
MaxPending == NItems

Indices == 0 .. (NItems - 1)
\* Index arguments of the public API: the valid ones, -1, and one past the end
\* (any index >= items.length reads undefined from this.items, as 99 does).
IndexArgs == (-1) .. NItems
\* The arguments the page calls with: open(99) and close(-1) stand for the
\* calls with an index out of range.
OpenArgs == Indices \cup {NItems}
CloseArgs == Indices \cup {-1}

VARIABLES
    allowMultiple,  \* this.options.allowMultiple
    items,          \* DOM state of each item, by index
    rafQ,           \* requestAnimationFrame callbacks not yet run, in order
    listeners,      \* per item: transitionend once-listeners on the content
    events,         \* history: CustomEvents dispatched by the last step
    lastCall,       \* history: the last step taken (for a click, the call
                    \* its handler made; fired: the kinds of listener run)
    openState       \* history: the panel state machine of each item:
                    \* "Closed", "Closing", or "Opened" (Opening or Open)

\* The page around the accordion: one element carrying
\* data-toggle="ds-accordion" (the root), the document it may be part of, and
\* the module-level code of accordion.js run as a script of that document.
VARIABLES
    parsing,        \* how far the document is parsed: "head" (no body yet),
                    \* "body" (readyState still 'loading'), or "done"
    script,         \* the module-level code: "pending", "ran" or "threw"
    onReady,        \* init is registered for DOMContentLoaded
    observing,      \* observer.observe(document.body, ...) has succeeded
    place,          \* where the root is: "detached", "markup" (parsed with
                    \* the document), "self" (inserted as the added node) or
                    \* "wrapped" (inside an inserted wrapper element)
    records,        \* added nodes of the mutation records not yet delivered
    instance,       \* element._accordionInstance is set
    keydownL,       \* keydown listeners registered on the root
    clickL,         \* click listeners registered on each trigger
    focus,          \* index of the trigger holding focus, -1 if none does
    prevented,      \* history: the last step's event had preventDefault called
    threw           \* history: the last step ended in an uncaught exception

\* A widget generated from the component template of src/unnamed/part_000:
\* one trigger and one content under its own root element.
VARIABLES
    animated,       \* this.options.animated
    widget,         \* this.state (isOpen, isDisabled) and the DOM the widget
                    \* writes: the root's is-open and is-disabled classes and
                    \* aria-disabled, the trigger's aria-expanded, the
                    \* content's aria-hidden and inline display
    timers,         \* setTimeout callbacks of close() not yet run
    widgetEvents,   \* history: CustomEvents dispatched by the last step
    widgetCall      \* history: the last step taken

\* The inputs and the result of the constructors' option handling.
VARIABLES
    dataset,        \* element.dataset: per option the data attribute's value
                    \* ("none": attribute absent)
    given,          \* the options argument: per option "true", "false", or
                    \* "absent" when the key is not given
    effective,      \* this.options of the instance built ("unset": no key)
    builtBy         \* which constructor ran: "none", "accordion", "widget"

\* Items whose markup lacks the trigger or the content element.
VARIABLES
    hasTrigger,     \* per item: item.querySelector(trigger) is not null
    hasContent      \* per item: item.querySelector(content) is not null

\* The ids that tie a trigger to its content.  An id is "none" (no
\* attribute), "page" (the value the page's markup gave the content),
\* "stale" (any other value of the markup) or "generated".
VARIABLES
    contentId,      \* per item: content.id
    ariaControls,   \* per item: the trigger's aria-controls
    widgetIds       \* the generated widget's content id and its trigger's
                    \* aria-controls

\* The instances constructed on the root are numbered from 1 in the order
\* of their construction.
VARIABLES
    marker          \* the instance element._accordionInstance refers to,
                    \* 0 while the property is unset or is not looked at

accVars == <<allowMultiple, items, rafQ, listeners, events, lastCall, openState>>
pageVars == <<parsing, script, onReady, observing, place, records, instance,
              keydownL, clickL, focus, prevented, threw>>
widgetVars == <<animated, widget, timers, widgetEvents, widgetCall>>
optionVars == <<dataset, given, effective, builtBy>>
markupVars == <<hasTrigger, hasContent>>
idVars == <<contentId, ariaControls, widgetIds>>
vars == <<accVars, pageVars, widgetVars, optionVars, markupVars, idVars, marker>>

\* ------------------------------------------------------------------------
\* The bundle of values that open(), close() and the callbacks transform.

\* seen: what a listener of each event dispatched in the step, and
\* requestAnimationFrame at each call in the step, finds in the DOM.
Dom(it, q, ls, ev, os) ==
    [items |-> it, rafQ |-> q, listeners |-> ls, events |-> ev, openState |-> os,
     seen |-> <<>>]

Cur == Dom(items, rafQ, listeners, <<>>, openState)

\* dispatchEvent(name, detail): the event is appended to those of the step.
\* index is -1 for events whose detail carries no index.
Event(name, index) == [name |-> name, index |-> index]

\* The item's attributes, and the items of the accordion, as they stand in
\* s at the point named by what.
Observation(s, what, index) ==
    [what |-> what, index |-> index, expanded |-> s.items[index].expanded,
     active |-> s.items[index].active, hidden |-> s.items[index].hidden,
     dom |-> s.items]

dispatchEvent(s, name, index) ==
    [s EXCEPT
       !.events = Append(@, Event(name, index)),
       !.seen = IF index \in Indices
                THEN Append(@, Observation(s, name, index)) ELSE @]

\* content.scrollHeight: a content under display:none (hidden) measures 0,
\* a rendered one measures its natural height whatever its inline height.
scrollHeight(it) == IF it.hidden THEN "0px" ELSE "Hpx"

\* animateOpen(content)
animateOpen(s, index) ==
    LET h == scrollHeight(s.items[index])
    IN [s EXCEPT
          !.items[index].height = "0px",
          !.items[index].opacity = "0",
          !.rafQ = Append(@, [kind |-> "open", item |-> index, height |-> h]),
          !.seen = Append(@, Observation(s, "frame-open", index))]

\* animateClose with the hidden flag committed when the transition starts.
animateCloseHidesAtOnce(s, index) ==
    LET h == scrollHeight(s.items[index])
    IN [s EXCEPT
          !.items[index].hidden = TRUE,
          !.items[index].height = h,
          !.items[index].opacity = "1",
          !.rafQ = Append(@, [kind |-> "close", item |-> index, height |-> "0px"])]

\* animateClose(content, trigger)
animateClose(s, index) ==
    LET h == scrollHeight(s.items[index])
    IN [s EXCEPT
          !.items[index].height = h,
          !.items[index].opacity = "1",
          !.rafQ = Append(@, [kind |-> "close", item |-> index, height |-> "0px"]),
          !.seen = Append(@, Observation(s, "frame-close", index))]

\* close() that removes the active class and leaves aria-expanded alone.
closeItemKeepsExpanded(s, index, animate) ==
    LET s1 == [s EXCEPT !.items[index].active = FALSE]
    IN IF ~animate
       THEN dispatchEvent(
              [s1 EXCEPT
                 !.items[index].hidden = TRUE,
                 !.items[index].height = "",
                 !.items[index].opacity = "",
                 !.openState[index] = "Closed"],
              "closed", index)
       ELSE dispatchEvent(
              [animateClose(s1, index) EXCEPT
                 !.openState[index] =
                     IF @ = "Closed" THEN "Closed" ELSE "Closing"],
              "closed", index)

\* close() that starts the animation and dispatches closed before it writes
\* the active class and aria-expanded.
closeItemWritesLast(s, index, animate) ==
    LET s1 == IF ~animate
              THEN dispatchEvent(
                     [s EXCEPT
                        !.items[index].hidden = TRUE,
                        !.items[index].height = "",
                        !.items[index].opacity = "",
                        !.openState[index] = "Closed"],
                     "closed", index)
              ELSE dispatchEvent(
                     [animateClose(s, index) EXCEPT
                        !.openState[index] =
                            IF @ = "Closed" THEN "Closed" ELSE "Closing"],
                     "closed", index)
    IN [s1 EXCEPT
          !.items[index].active = FALSE,
          !.items[index].expanded = "false"]

\* The body of close(index, animate) once the item is known to exist.
closeItem(s, index, animate) ==
    LET s1 == [s EXCEPT
                 !.items[index].active = FALSE,
                 !.items[index].expanded = "false"]
    IN IF ~animate
       THEN dispatchEvent(
              [s1 EXCEPT
                 !.items[index].hidden = TRUE,
                 !.items[index].height = "",
                 !.items[index].opacity = "",
                 !.openState[index] = "Closed"],
              "closed", index)
       ELSE dispatchEvent(
              [animateClose(s1, index) EXCEPT
                 !.openState[index] =
                     IF @ = "Closed" THEN "Closed" ELSE "Closing"],
              "closed", index)

\* close(index, animate)
close(s, index, animate) ==
    IF index \notin Indices THEN s ELSE closeItem(s, index, animate)

\* The cascade loop closing the other items with animation whatever the
\* animate flag of the open.
RECURSIVE closeOthersAnimated(_, _, _, _)
closeOthersAnimated(s, index, animate, k) ==
    IF k >= NItems THEN s
    ELSE closeOthersAnimated(IF k # index THEN close(s, k, TRUE) ELSE s,
                             index, animate, k + 1)

\* this.items.forEach((_, i) => { if (i !== index) this.close(i, animate) })
\* from item k on.
RECURSIVE closeOthers(_, _, _, _)
closeOthers(s, index, animate, k) ==
    IF k >= NItems THEN s
    ELSE closeOthers(IF k # index THEN close(s, k, animate) ELSE s,
                     index, animate, k + 1)

\* The cascade run whatever allowMultiple says.
cascadeAlways(s, index, animate, multiple) == closeOthers(s, index, animate, 0)

\* The cascade with the allowMultiple test inverted.
cascadeInverted(s, index, animate, multiple) ==
    IF multiple THEN closeOthers(s, index, animate, 0) ELSE s

\* The cascade of open(): skipped when several items may be open.
cascade(s, index, animate, multiple) ==
    IF ~multiple THEN closeOthers(s, index, animate, 0) ELSE s

\* open() with classList.toggle in place of classList.add.
openItemToggles(s, index, animate) ==
    LET s1 == [s EXCEPT
                 !.items[index].active = ~@,
                 !.items[index].expanded = "true",
                 !.items[index].hidden = FALSE]
    IN IF ~animate
       THEN dispatchEvent(
              [s1 EXCEPT
                 !.items[index].height = "",
                 !.items[index].opacity = "",
                 !.openState[index] = "Opened"],
              "opened", index)
       ELSE dispatchEvent(
              [animateOpen(s1, index) EXCEPT !.openState[index] = "Opened"],
              "opened", index)

\* The body of open(index, animate) after the cascade.
openItem(s, index, animate) ==
    LET s1 == [s EXCEPT
                 !.items[index].active = TRUE,
                 !.items[index].expanded = "true",
                 !.items[index].hidden = FALSE]
    IN IF ~animate
       THEN dispatchEvent(
              [s1 EXCEPT
                 !.items[index].height = "",
                 !.items[index].opacity = "",
                 !.openState[index] = "Opened"],
              "opened", index)
       ELSE dispatchEvent(
              [animateOpen(s1, index) EXCEPT !.openState[index] = "Opened"],
              "opened", index)

\* open() that runs the cascade before it looks the item up.
openCascadesFirst(s, index, animate, multiple) ==
    LET s1 == cascade(s, index, animate, multiple)
    IN IF index \notin Indices THEN s1 ELSE openItem(s1, index, animate)

\* open() that writes the target item before it runs the cascade.
openTargetFirst(s, index, animate, multiple) ==
    IF index \notin Indices THEN s
    ELSE cascade(openItem(s, index, animate), index, animate, multiple)

\* open(index, animate)
open(s, index, animate, multiple) ==
    IF index \notin Indices THEN s
    ELSE openItem(cascade(s, index, animate, multiple), index, animate)

\* handleClick that opens whatever aria-expanded says.
handleClickOpens(s, index, multiple) == open(s, index, TRUE, multiple)

\* handleClick(event, index): the listener of item index's trigger.
handleClick(s, index, multiple) ==
    IF s.items[index].expanded = "true"
    THEN close(s, index, TRUE)
    ELSE open(s, index, TRUE, multiple)

\* ------------------------------------------------------------------------
\* Deferred callbacks.

\* The requestAnimationFrame callback of animateOpen / animateClose.
frameCallback(s, cb) ==
    [s EXCEPT
       !.items[cb.item].height = cb.height,
       !.items[cb.item].opacity = IF cb.kind = "open" THEN "1" ELSE "0",
       !.listeners[cb.item] = Append(@, cb.kind)]

\* One animation frame: every queued callback runs, in the order queued.
RECURSIVE runFrame(_)
runFrame(s) ==
    IF s.rafQ = <<>> THEN s
    ELSE runFrame(frameCallback([s EXCEPT !.rafQ = Tail(@)], Head(s.rafQ)))

\* The open listener that clears the height only while the item is open.
openEndedGuarded(s, index) ==
    IF s.items[index].expanded = "true"
    THEN [s EXCEPT !.items[index].height = ""]
    ELSE s

\* The transitionend listener registered by animateOpen.
openEnded(s, index) == [s EXCEPT !.items[index].height = ""]

\* The close listener without the re-check of aria-expanded.
closeEndedUnguarded(s, index) ==
    [s EXCEPT
       !.items[index].hidden = TRUE,
       !.items[index].height = "",
       !.items[index].opacity = ""]

\* The transitionend listener registered by animateClose.
closeEnded(s, index) ==
    [s EXCEPT
       !.items[index].hidden = (s.items[index].expanded # "true"),
       !.items[index].height = "",
       !.items[index].opacity = ""]

\* The panel state machine when a listener of the given kind has run: the
\* end of a close transition takes a closing panel to Closed.
ended(os, kind) == IF os = "Closing" /\ kind = "close" THEN "Closed" ELSE os

\* A transitionend event on item index's content: the listeners ls run in the
\* order they were registered (each is once: true, so all are removed).
RECURSIVE runListeners(_, _, _)
runListeners(s, index, ls) ==
    IF ls = <<>> THEN s
    ELSE LET s1 == IF Head(ls) = "open" THEN openEnded(s, index)
                   ELSE closeEnded(s, index)
         IN runListeners(
              [s1 EXCEPT !.openState[index] = ended(@, Head(ls))],
              index, Tail(ls))

transitionEnd(s, index) ==
    runListeners([s EXCEPT !.listeners[index] = <<>>], index, s.listeners[index])

\* ------------------------------------------------------------------------
\* Construction.

\* init() that takes an item for active by its aria-expanded only.
RECURSIVE initItemsAriaOnly(_, _, _)
initItemsAriaOnly(s, k, multiple) ==
    IF k >= NItems THEN s
    ELSE initItemsAriaOnly(IF s.items[k].expanded = "true"
                           THEN open(s, k, FALSE, multiple)
                           ELSE close(s, k, FALSE),
                           k + 1, multiple)

\* init(): each item in document order is opened or closed without animation
\* according to its markup as it stands when the loop reaches it.
RECURSIVE initItems(_, _, _)
initItems(s, k, multiple) ==
    IF k >= NItems THEN s
    ELSE LET isActive == s.items[k].active \/ s.items[k].expanded = "true"
         IN initItems(IF isActive THEN open(s, k, FALSE, multiple)
                      ELSE close(s, k, FALSE),
                      k + 1, multiple)

init(s, multiple) == dispatchEvent(initItems(s, 0, multiple), "initialized", -1)

\* The item markup the page may supply: any combination of the active class,
\* aria-expanded ("none": attribute absent) and hidden; no inline style, and
\* no aria-hidden attribute on the content.
MarkupItem ==
    [active : BOOLEAN, expanded : {"true", "false", "none"}, hidden : BOOLEAN,
     height : {""}, opacity : {""}, ariaHidden : {"none"}]

Call(op, index, animate, fired) ==
    [op |-> op, index |-> index, animate |-> animate, fired |-> fired]

\* ------------------------------------------------------------------------
\* The state machine.

RECURSIVE SumLen(_, _)
SumLen(ls, k) == IF k >= NItems THEN 0 ELSE Len(ls[k]) + SumLen(ls, k + 1)

Pending(s) == Len(s.rafQ) + SumLen(s.listeners, 0)

WithinBounds(s) == Pending(s) <= MaxPending

Commit(s, call) ==
    /\ items' = s.items
    /\ rafQ' = s.rafQ
    /\ listeners' = s.listeners
    /\ events' = s.events
    /\ openState' = s.openState
    /\ lastCall' = call
    /\ UNCHANGED allowMultiple
    /\ UNCHANGED pageVars
    /\ UNCHANGED widgetVars
    /\ UNCHANGED <<optionVars, markupVars, idVars, marker>>

\* The names of the configuration options.
Options == {"allowMultiple", "animated", "keyboard", "closeOnOutsideClick"}

\* No constructor's option handling is being looked at.
NoOptions ==
    /\ dataset = [o \in Options |-> "none"]
    /\ given = [o \in Options |-> "absent"]
    /\ effective = [o \in Options |-> "unset"]
    /\ builtBy = "none"

\* No id is being looked at.
NoIds ==
    /\ contentId = [i \in Indices |-> "none"]
    /\ ariaControls = [i \in Indices |-> "none"]
    /\ widgetIds = [id |-> "none", controls |-> "none"]

\* Every item has its trigger and its content.
WellFormed ==
    /\ hasTrigger = [i \in Indices |-> TRUE]
    /\ hasContent = [i \in Indices |-> TRUE]

\* A page without a generated widget.
NoWidget ==
    /\ animated = FALSE
    /\ widget = [isOpen |-> FALSE]
    /\ timers = 0
    /\ widgetEvents = <<>>
    /\ widgetCall = "none"

\* The page as Spec sees it: the document is loaded, the root was parsed with
\* it and new Accordion(root) has returned; nothing of the page changes.
Constructed ==
    /\ parsing = "done"
    /\ script = "ran"
    /\ onReady = FALSE
    /\ observing = TRUE
    /\ place = "markup"
    /\ records = <<>>
    /\ instance = TRUE
    /\ keydownL = 1
    /\ clickL = 1
    /\ focus = -1
    /\ prevented = FALSE
    /\ threw = FALSE

\* new Accordion(element) on the page's markup.
Init ==
    \E markup \in [Indices -> MarkupItem], multiple \in BOOLEAN :
        LET s == init(Dom(markup, <<>>, [j \in Indices |-> <<>>], <<>>,
                          [j \in Indices |-> "Closed"]), multiple)
        IN /\ allowMultiple = multiple
           /\ items = s.items
           /\ rafQ = s.rafQ
           /\ listeners = s.listeners
           /\ events = s.events
           /\ openState = s.openState
           /\ lastCall = Call("construct", -1, FALSE, {})
           /\ Constructed
           /\ NoWidget
           /\ NoOptions
           /\ WellFormed
           /\ NoIds
           /\ marker = 0

Open(index, animate) ==
    LET s == open(Cur, index, animate, allowMultiple)
    IN /\ WithinBounds(s)
       /\ Commit(s, Call("open", index, animate, {}))

Close(index, animate) ==
    LET s == close(Cur, index, animate)
    IN /\ WithinBounds(s)
       /\ Commit(s, Call("close", index, animate, {}))

\* A click on item index's trigger; lastCall records the call the handler made.
Click(index) ==
    LET s == handleClick(Cur, index, allowMultiple)
    IN /\ WithinBounds(s)
       /\ Commit(s, Call(IF items[index].expanded = "true" THEN "close" ELSE "open",
                         index, TRUE, {}))

Frame ==
    /\ rafQ # <<>>
    /\ Commit(runFrame(Cur), Call("frame", -1, FALSE, {}))

\* A transitionend event reaches item index's content.  Only a rendered
\* content runs transitions: none ends on a content under display:none.
TransitionEnd(index) ==
    /\ listeners[index] # <<>>
    /\ ~items[index].hidden
    /\ Commit(transitionEnd(Cur, index),
              Call("transitionend", index, FALSE,
                   {listeners[index][n] : n \in 1 .. Len(listeners[index])}))

\* A call with an index out of range returns before it reads animate, so it
\* is made with the default (animate = true) only.
Next ==
    \/ \E index \in OpenArgs, animate \in BOOLEAN :
          (index \in Indices \/ animate) /\ Open(index, animate)
    \/ \E index \in CloseArgs, animate \in BOOLEAN :
          (index \in Indices \/ animate) /\ Close(index, animate)
    \/ \E index \in Indices : Click(index)
    \/ Frame
    \/ \E index \in Indices : TransitionEnd(index)

Spec == Init /\ [][Next]_vars

\* s once every pending frame callback and then every pending transitionend
\* listener has run.
RECURSIVE endAll(_, _)
endAll(s, k) == IF k >= NItems THEN s ELSE endAll(transitionEnd(s, k), k + 1)

settle(s) == endAll(runFrame(s), 0)

\* ------------------------------------------------------------------------
\* The page: construction, scan, mutation watch, destroy, click and keydown
\* listeners.  The page is observed between animations: a click is followed
\* by the end of the transitions it starts.

\* Cap on the instances constructed on the root.
MaxLives == 2

\* The bundle the page-level code transforms: the widget's DOM and the
\* listeners and registry marker held by the root.
Page(d, inst, kl, cl, th) ==
    [dom |-> d, instance |-> inst, keydownL |-> kl, clickL |-> cl, threw |-> th]

CurPage == Page(Cur, instance, keydownL, clickL, FALSE)

\* A constructor that tests its element after init() has run.
AccordionChecksLate(pg, element, multiple) ==
    LET built == [pg EXCEPT
                    !.instance = TRUE,
                    !.dom = init(pg.dom, multiple),
                    !.clickL = @ + 1,
                    !.keydownL = @ + 1]
    IN IF element = "null" THEN [built EXCEPT !.threw = TRUE] ELSE built

\* new Accordion(element) with no options: element is "null" or "el".
\* init() registers one click listener on each trigger and one keydown
\* listener on the root.
Accordion(pg, element, multiple) ==
    IF element = "null" THEN [pg EXCEPT !.threw = TRUE]
    ELSE [pg EXCEPT
            !.instance = TRUE,
            !.dom = init(pg.dom, multiple),
            !.clickL = @ + 1,
            !.keydownL = @ + 1]

\* root.querySelectorAll('[data-toggle="ds-accordion"]'): the matching
\* descendants of root, which is "document", "wrapper" or "el".  The root
\* element holds no other root.
matching(root, pl) ==
    IF \/ root = "document" /\ pl # "detached"
       \/ root = "wrapper" /\ pl = "wrapped"
    THEN {"el"} ELSE {}

\* initAccordions without the test of element._accordionInstance.
initAccordionsUnchecked(pg, root, pl, multiple) ==
    IF "el" \in matching(root, pl) THEN Accordion(pg, "el", multiple) ELSE pg

\* initAccordions(root)
initAccordions(pg, root, pl, multiple) ==
    IF "el" \in matching(root, pl) /\ ~pg.instance
    THEN Accordion(pg, "el", multiple)
    ELSE pg

\* The MutationObserver callback on the added nodes recs.
RECURSIVE observerCallback(_, _, _, _)
observerCallback(pg, recs, pl, multiple) ==
    IF recs = <<>> THEN pg
    ELSE observerCallback(initAccordions(pg, Head(recs), pl, multiple),
                          Tail(recs), pl, multiple)

\* destroy() that leaves element._accordionInstance in place.
destroyKeepsMarker(pg) ==
    [pg EXCEPT !.keydownL = IF @ > 0 THEN @ - 1 ELSE 0]

\* The markup of the root's items on the page: each item is marked up open
\* (active class, aria-expanded "true", content shown) or closed.
PageItem(isOpen) ==
    [active |-> isOpen, expanded |-> IF isOpen THEN "true" ELSE "false",
     hidden |-> ~isOpen, height |-> "", opacity |-> "", ariaHidden |-> "none"]

\* destroy() that puts every item back to closed.
destroyClosing(pg) ==
    [pg EXCEPT !.keydownL = IF @ > 0 THEN @ - 1 ELSE 0, !.instance = FALSE,
               !.dom.items = [i \in Indices |-> PageItem(FALSE)]]

\* destroy()
destroy(pg) ==
    [pg EXCEPT !.keydownL = IF @ > 0 THEN @ - 1 ELSE 0, !.instance = FALSE]

\* A click event on trigger index: each of the n click listeners calls its
\* instance's handleClick, in the order registered.
RECURSIVE clickListeners(_, _, _, _)
clickListeners(s, index, multiple, n) ==
    IF n = 0 THEN s
    ELSE clickListeners(handleClick(s, index, multiple), index, multiple, n - 1)

Keys == {"ArrowDown", "ArrowUp", "Home", "End", "Enter", " ", "Escape", "a"}

\* handleKeydown whose arrow keys stop at the first and last trigger.
handleKeydownNoWrap(f, key, target) ==
    IF target \notin Indices THEN [focus |-> f, prevented |-> FALSE]
    ELSE IF key = "ArrowDown"
         THEN [focus |-> IF target = NItems - 1 THEN target ELSE target + 1,
               prevented |-> TRUE]
    ELSE IF key = "ArrowUp"
         THEN [focus |-> IF target = 0 THEN 0 ELSE target - 1,
               prevented |-> TRUE]
    ELSE IF key = "Home" THEN [focus |-> 0, prevented |-> TRUE]
    ELSE IF key = "End" THEN [focus |-> NItems - 1, prevented |-> TRUE]
    ELSE [focus |-> f, prevented |-> FALSE]

\* handleKeydown(event): target is the index of the trigger the event is
\* aimed at, -1 for an element without the trigger class.  The result is the
\* trigger focused afterwards (f: focus as it was) and whether
\* preventDefault was called.
handleKeydown(f, key, target) ==
    IF target \notin Indices THEN [focus |-> f, prevented |-> FALSE]
    ELSE IF key = "ArrowDown"
         THEN [focus |-> (target + 1) % NItems, prevented |-> TRUE]
    ELSE IF key = "ArrowUp"
         THEN [focus |-> IF target = 0 THEN NItems - 1 ELSE target - 1,
               prevented |-> TRUE]
    ELSE IF key = "Home" THEN [focus |-> 0, prevented |-> TRUE]
    ELSE IF key = "End" THEN [focus |-> NItems - 1, prevented |-> TRUE]
    ELSE [focus |-> f, prevented |-> FALSE]

PageWrite(pg, call) ==
    /\ items' = pg.dom.items
    /\ rafQ' = pg.dom.rafQ
    /\ listeners' = pg.dom.listeners
    /\ events' = pg.dom.events
    /\ openState' = pg.dom.openState
    /\ instance' = pg.instance
    /\ keydownL' = pg.keydownL
    /\ clickL' = pg.clickL
    /\ threw' = pg.threw
    /\ lastCall' = call
    /\ UNCHANGED allowMultiple
    /\ UNCHANGED widgetVars
    /\ UNCHANGED <<optionVars, markupVars, idVars>>

PageCommit(pg, call) == PageWrite(pg, call) /\ UNCHANGED marker

\* The document starts to load; the root is part of its markup or is created
\* by the page later on.
PageInit ==
    \E isOpen \in [Indices -> BOOLEAN], multiple \in BOOLEAN,
       pl \in {"markup", "detached"} :
        /\ allowMultiple = multiple
        /\ items = [i \in Indices |-> PageItem(isOpen[i])]
        /\ rafQ = <<>>
        /\ listeners = [i \in Indices |-> <<>>]
        /\ events = <<>>
        /\ openState = [i \in Indices |-> IF isOpen[i] THEN "Opened" ELSE "Closed"]
        /\ lastCall = Call("load", -1, FALSE, {})
        /\ parsing = "head"
        /\ script = "pending"
        /\ onReady = FALSE
        /\ observing = FALSE
        /\ place = pl
        /\ records = <<>>
        /\ instance = FALSE
        /\ keydownL = 0
        /\ clickL = 0
        /\ focus = -1
        /\ prevented = FALSE
        /\ threw = FALSE
        /\ NoWidget
        /\ NoOptions
        /\ WellFormed
        /\ NoIds
        /\ marker = 0

\* The parser reaches <body>.
ParseBody ==
    /\ parsing = "head"
    /\ parsing' = "body"
    /\ PageCommit(CurPage, Call("parse", -1, FALSE, {}))
    /\ UNCHANGED <<script, onReady, observing, place, records, focus, prevented>>

\* DOMContentLoaded: the listener registered by the script, if any, scans
\* the document.
DomReady ==
    /\ parsing = "body"
    /\ parsing' = "done"
    /\ PageCommit(IF onReady
                  THEN initAccordions(CurPage, "document", place, allowMultiple)
                  ELSE CurPage,
                  Call("ready", -1, FALSE, {}))
    /\ UNCHANGED <<script, onReady, observing, place, records, focus, prevented>>

\* The module-level code of accordion.js runs: it scans now or registers the
\* scan for DOMContentLoaded, then starts the observer on document.body,
\* which throws a TypeError while document.body is null.
RunScript ==
    /\ script = "pending"
    /\ script' = IF parsing = "head" THEN "threw" ELSE "ran"
    /\ onReady' = (parsing # "done")
    /\ observing' = (parsing # "head")
    /\ LET pg == IF parsing = "done"
                 THEN initAccordions(CurPage, "document", place, allowMultiple)
                 ELSE CurPage
       IN PageCommit([pg EXCEPT !.threw = (parsing = "head")],
                     Call("script", -1, FALSE, {}))
    /\ UNCHANGED <<parsing, place, records, focus, prevented>>

\* The page inserts the root under document.body: how is "self"
\* (body.appendChild(root)) or "wrapped" (the root sits in a wrapper element
\* and the wrapper is appended).
Insert(how) ==
    /\ place = "detached"
    /\ parsing # "head"
    /\ place' = how
    /\ records' = IF observing
                  THEN Append(records, IF how = "self" THEN "el" ELSE "wrapper")
                  ELSE records
    /\ PageCommit(CurPage, Call("insert", -1, FALSE, {how}))
    /\ UNCHANGED <<parsing, script, onReady, observing, focus, prevented>>

\* The observer's callback is run with the records queued.
Deliver ==
    /\ records # <<>>
    /\ records' = <<>>
    /\ PageCommit(observerCallback(CurPage, records, place, allowMultiple),
                  Call("deliver", -1, FALSE, {}))
    /\ UNCHANGED <<parsing, script, onReady, observing, place, focus, prevented>>

\* The page calls initAccordions().
Scan ==
    /\ script = "ran"
    /\ LET pg == initAccordions(CurPage, "document", place, allowMultiple)
       IN /\ pg.clickL <= MaxLives
          /\ PageCommit(pg, Call("scan", -1, FALSE, {}))
    /\ UNCHANGED <<parsing, script, onReady, observing, place, records, focus,
                   prevented>>

\* The page calls destroy() on the instance registered on the root.
Destroy ==
    /\ instance
    /\ clickL < MaxLives
    /\ PageCommit(destroy(CurPage), Call("destroy", -1, FALSE, {}))
    /\ UNCHANGED <<parsing, script, onReady, observing, place, records, focus,
                   prevented>>

\* The page calls new Accordion(null).
ConstructNull ==
    /\ script = "ran"
    /\ PageCommit(Accordion(CurPage, "null", allowMultiple),
                  Call("construct", -1, FALSE, {"null"}))
    /\ UNCHANGED <<parsing, script, onReady, observing, place, records, focus,
                   prevented>>

\* A click on trigger index, followed by the end of the transitions started.
ClickTrigger(index) ==
    /\ PageCommit([CurPage EXCEPT
                     !.dom = LET s == clickListeners(Cur, index, allowMultiple, clickL)
                             IN [settle(s) EXCEPT !.events = s.events]],
                  Call("click", index, TRUE, {}))
    /\ prevented' = (clickL > 0)
    /\ UNCHANGED <<parsing, script, onReady, observing, place, records, focus>>

\* Focus moves to trigger target, or away from the triggers (-1).
Focus(target) ==
    /\ focus # target
    /\ focus' = target
    /\ PageCommit(CurPage, Call("focus", target, FALSE, {}))
    /\ UNCHANGED <<parsing, script, onReady, observing, place, records, prevented>>

\* A keydown event of the given key on the focused element reaches the root;
\* the root has at most one keydown listener.
KeyDown(key) ==
    /\ LET r == IF keydownL > 0 THEN handleKeydown(focus, key, focus)
                ELSE [focus |-> focus, prevented |-> FALSE]
       IN focus' = r.focus /\ prevented' = r.prevented
    /\ PageCommit(CurPage, Call("keydown", focus, FALSE, {key}))
    /\ UNCHANGED <<parsing, script, onReady, observing, place, records>>

PageNext ==
    \/ ParseBody
    \/ DomReady
    \/ RunScript
    \/ \E how \in {"self", "wrapped"} : Insert(how)
    \/ Deliver
    \/ Scan
    \/ Destroy
    \/ ConstructNull
    \/ \E index \in Indices : ClickTrigger(index)
    \/ \E target \in (-1) .. (NItems - 1) : Focus(target)
    \/ \E key \in Keys : KeyDown(key)

SpecPage == PageInit /\ [][PageNext]_vars

\* ------------------------------------------------------------------------
\* The generated widget.

\* Cap on the pending setTimeout callbacks of close().
MaxTimers == 2

WidgetBundle(w, n, ev) == [w |-> w, timers |-> n, events |-> ev]

CurWidget == WidgetBundle(widget, timers, <<>>)

\* dispatchEvent(eventName)
widgetDispatch(b, name) == [b EXCEPT !.events = Append(@, name)]

\* open() without the test of state.isDisabled.
widgetOpenIgnoresDisabled(b, anim) ==
    IF b.w.isOpen THEN b
    ELSE widgetDispatch(
           [b EXCEPT
              !.w.isOpen = TRUE,
              !.w.classOpen = TRUE,
              !.w.ariaExpanded = "true",
              !.w.ariaHidden = "false",
              !.w.display = IF anim THEN "block" ELSE @],
           "opened")

\* open()
widgetOpen(b, anim) ==
    IF b.w.isOpen \/ b.w.isDisabled THEN b
    ELSE widgetDispatch(
           [b EXCEPT
              !.w.isOpen = TRUE,
              !.w.classOpen = TRUE,
              !.w.ariaExpanded = "true",
              !.w.ariaHidden = "false",
              !.w.display = IF anim THEN "block" ELSE @],
           "opened")

\* close(): an animated widget sets a 300 ms timer that hides the content.
widgetClose(b, anim) ==
    IF ~b.w.isOpen THEN b
    ELSE widgetDispatch(
           [b EXCEPT
              !.w.isOpen = FALSE,
              !.w.classOpen = FALSE,
              !.w.ariaExpanded = "false",
              !.w.ariaHidden = "true",
              !.timers = IF anim THEN @ + 1 ELSE @],
           "closed")

\* toggle()
widgetToggle(b, anim) ==
    IF b.w.isOpen THEN widgetClose(b, anim) ELSE widgetOpen(b, anim)

\* enable()
enable(b) ==
    widgetDispatch(
      [b EXCEPT
         !.w.isDisabled = FALSE,
         !.w.classDisabled = FALSE,
         !.w.ariaDisabled = "none"],
      "enabled")

\* disable()
disable(b) ==
    widgetDispatch(
      [b EXCEPT
         !.w.isDisabled = TRUE,
         !.w.classDisabled = TRUE,
         !.w.ariaDisabled = "true"],
      "disabled")

\* The timer callback without the test of state.isOpen.
timeoutUnguarded(b) ==
    [b EXCEPT !.timers = @ - 1, !.w.display = "none"]

\* The setTimeout callback of close().
timeout(b) ==
    [b EXCEPT
       !.timers = @ - 1,
       !.w.display = IF ~b.w.isOpen THEN "none" ELSE @]

\* handleKeydown(event) of the widget; onTrigger: event.target is the
\* trigger.
widgetKeydown(b, key, onTrigger, anim) ==
    IF key = "Escape" THEN (IF b.w.isOpen THEN widgetClose(b, anim) ELSE b)
    ELSE IF key \in {"Enter", " "} /\ onTrigger THEN widgetToggle(b, anim)
    ELSE b

\* destroy() of the widget: the listeners, the root's tabindex and the
\* marker are removed, then the event is dispatched.
widgetDestroy(b) == widgetDispatch(b, "destroyed")

WidgetCommit(b, call) ==
    /\ widget' = b.w
    /\ timers' = b.timers
    /\ widgetEvents' = b.events
    /\ widgetCall' = call
    /\ UNCHANGED <<animated, accVars, pageVars, optionVars, markupVars, idVars, marker>>

\* new Widget(element): state starts closed and enabled, setupAccessibility
\* writes aria-expanded "false" and aria-hidden "true"; the classes of the
\* root are as the markup has them.
WidgetInit ==
    \E anim \in BOOLEAN, classOpen \in BOOLEAN, classDisabled \in BOOLEAN :
        /\ animated = anim
        /\ widget = [isOpen |-> FALSE, isDisabled |-> FALSE,
                     classOpen |-> classOpen, classDisabled |-> classDisabled,
                     ariaDisabled |-> "none", ariaExpanded |-> "false",
                     ariaHidden |-> "true", display |-> ""]
        /\ timers = 0
        /\ widgetEvents = <<"initialized">>
        /\ widgetCall = "construct"
        /\ allowMultiple = FALSE
        /\ items = [i \in Indices |-> PageItem(FALSE)]
        /\ rafQ = <<>>
        /\ listeners = [i \in Indices |-> <<>>]
        /\ events = <<>>
        /\ openState = [i \in Indices |-> "Closed"]
        /\ lastCall = Call("none", -1, FALSE, {})
        /\ parsing = "done"
        /\ script = "ran"
        /\ onReady = FALSE
        /\ observing = TRUE
        /\ place = "detached"
        /\ records = <<>>
        /\ instance = FALSE
        /\ keydownL = 0
        /\ clickL = 0
        /\ focus = -1
        /\ prevented = FALSE
        /\ threw = FALSE
        /\ NoOptions
        /\ WellFormed
        /\ NoIds
        /\ marker = 0

WidgetOpen ==
    WidgetCommit(widgetOpen(CurWidget, animated), "open")

WidgetClose ==
    LET b == widgetClose(CurWidget, animated)
    IN b.timers <= MaxTimers /\ WidgetCommit(b, "close")

\* toggle(), also what a click on the trigger runs.
WidgetToggle ==
    LET b == widgetToggle(CurWidget, animated)
    IN b.timers <= MaxTimers /\ WidgetCommit(b, "toggle")

WidgetEnable == WidgetCommit(enable(CurWidget), "enable")

WidgetDisable == WidgetCommit(disable(CurWidget), "disable")

\* The oldest pending timer of close() fires.
WidgetTimeout ==
    /\ timers > 0
    /\ WidgetCommit(timeout(CurWidget), "timeout")

WidgetDestroy == WidgetCommit(widgetDestroy(CurWidget), "destroy")

WidgetKeydown(key, onTrigger) ==
    LET b == widgetKeydown(CurWidget, key, onTrigger, animated)
    IN b.timers <= MaxTimers /\ WidgetCommit(b, "keydown")

WidgetNext ==
    \/ WidgetOpen
    \/ WidgetClose
    \/ WidgetToggle
    \/ WidgetEnable
    \/ WidgetDisable
    \/ WidgetTimeout
    \/ WidgetDestroy
    \/ \E key \in Keys, onTrigger \in BOOLEAN : WidgetKeydown(key, onTrigger)

SpecWidget == WidgetInit /\ [][WidgetNext]_vars

\* ------------------------------------------------------------------------
\* The constructors' option handling.

\* The values a data attribute may have, and those an option may be given.
DataValues == {"none", "true", "false", "1"}
GivenValues == {"absent", "true", "false"}

\* A JavaScript boolean, written as the options hold it.
Bool(b) == IF b THEN "true" ELSE "false"

\* { ...base, ...options }: every key given replaces the key of base.
spread(base, opts) ==
    [o \in Options |-> IF opts[o] # "absent" THEN opts[o] ELSE base[o]]

\* The accordion's options without the spread of the argument.
accordionOptionsNoSpread(data, opts) ==
    [o \in Options |->
        IF o = "allowMultiple"
        THEN Bool(data[o] = "true" \/ opts[o] = "true")
        ELSE "unset"]

\* this.options of new Accordion(element, options)
accordionOptions(data, opts) ==
    spread([o \in Options |->
              IF o = "allowMultiple"
              THEN Bool(data[o] = "true" \/ opts[o] = "true")
              ELSE "unset"],
           opts)

\* this.options of the generated widget's constructor
widgetOptions(data, opts) ==
    spread([o \in Options |->
              IF o = "animated" THEN Bool(data[o] # "false")
              ELSE IF o = "closeOnOutsideClick" THEN Bool(data[o] = "true")
              ELSE IF o = "keyboard" THEN Bool(data[o] # "false")
              ELSE "unset"],
           opts)

\* The accordion, the page and the widget at rest while another part of the
\* program is looked at.
IdleAccordion ==
    /\ allowMultiple = FALSE
    /\ items = [i \in Indices |-> PageItem(FALSE)]
    /\ rafQ = <<>>
    /\ listeners = [i \in Indices |-> <<>>]
    /\ events = <<>>
    /\ openState = [i \in Indices |-> "Closed"]
    /\ lastCall = Call("none", -1, FALSE, {})

IdlePage ==
    /\ parsing = "done"
    /\ script = "ran"
    /\ onReady = FALSE
    /\ observing = TRUE
    /\ place = "detached"
    /\ records = <<>>
    /\ instance = FALSE
    /\ keydownL = 0
    /\ clickL = 0
    /\ focus = -1
    /\ prevented = FALSE
    /\ threw = FALSE

\* An element with any data attributes and an options argument with any keys.
OptionsInit ==
    /\ dataset \in [Options -> DataValues]
    /\ given \in [Options -> GivenValues]
    /\ effective = [o \in Options |-> "unset"]
    /\ builtBy = "none"
    /\ IdleAccordion
    /\ IdlePage
    /\ NoWidget
    /\ WellFormed
    /\ NoIds
    /\ marker = 0

ConstructAccordion ==
    /\ builtBy = "none"
    /\ effective' = accordionOptions(dataset, given)
    /\ builtBy' = "accordion"
    /\ UNCHANGED <<dataset, given, accVars, pageVars, widgetVars, markupVars, idVars, marker>>

ConstructWidget ==
    /\ builtBy = "none"
    /\ effective' = widgetOptions(dataset, given)
    /\ builtBy' = "widget"
    /\ UNCHANGED <<dataset, given, accVars, pageVars, widgetVars, markupVars, idVars, marker>>

OptionsNext == ConstructAccordion \/ ConstructWidget

SpecOptions == OptionsInit /\ [][OptionsNext]_vars

\* ------------------------------------------------------------------------
\* Items without a trigger or without a content.  init() skips such an item
\* but leaves it in this.items, so open, close and the cascade reach it, and
\* a method call on the null element throws a TypeError.

\* A DOM bundle and whether an exception is propagating.
Outcome(s, th) == [dom |-> s, threw |-> th]

\* close(index, animate) on any item: the active class is removed, then
\* trigger.setAttribute throws without a trigger, then content.hidden (or
\* content.scrollHeight in animateClose) throws without a content.
closeThrowing(m, index, animate, ht, hc) ==
    IF m.threw \/ index \notin Indices THEN m
    ELSE LET s1 == [m.dom EXCEPT !.items[index].active = FALSE]
             s2 == [s1 EXCEPT !.items[index].expanded = "false"]
         IN IF ~ht[index] THEN Outcome(s1, TRUE)
            ELSE IF ~hc[index] THEN Outcome(s2, TRUE)
            ELSE Outcome(closeItem(m.dom, index, animate), FALSE)

\* The cascade loop of open() from item k on; an exception ends it.
RECURSIVE closeOthersThrowing(_, _, _, _, _, _)
closeOthersThrowing(m, index, animate, k, ht, hc) ==
    IF k >= NItems \/ m.threw THEN m
    ELSE closeOthersThrowing(
           IF k # index THEN closeThrowing(m, k, animate, ht, hc) ELSE m,
           index, animate, k + 1, ht, hc)

\* open(index, animate) on any item.
openThrowing(m, index, animate, multiple, ht, hc) ==
    IF m.threw \/ index \notin Indices THEN m
    ELSE LET c == IF ~multiple
                  THEN closeOthersThrowing(m, index, animate, 0, ht, hc)
                  ELSE m
             s1 == [c.dom EXCEPT !.items[index].active = TRUE]
             s2 == [s1 EXCEPT !.items[index].expanded = "true"]
         IN IF c.threw THEN c
            ELSE IF ~ht[index] THEN Outcome(s1, TRUE)
            ELSE IF ~hc[index] THEN Outcome(s2, TRUE)
            ELSE Outcome(openItem(c.dom, index, animate), FALSE)

\* The forEach of init() from item k on: an item without trigger or content
\* is skipped; an exception thrown by open or close ends the constructor.
RECURSIVE initThrowing(_, _, _, _, _)
initThrowing(m, k, multiple, ht, hc) ==
    IF k >= NItems \/ m.threw THEN m
    ELSE LET isActive == m.dom.items[k].active
                           \/ m.dom.items[k].expanded = "true"
         IN initThrowing(
              IF ~ht[k] \/ ~hc[k] THEN m
              ELSE IF isActive
                   THEN openThrowing(m, k, FALSE, multiple, ht, hc)
                   ELSE closeThrowing(m, k, FALSE, ht, hc),
              k + 1, multiple, ht, hc)

\* The markup of an item: open or closed, with or without its trigger
\* (aria-expanded "none": there is no attribute to read) and its content
\* (hidden FALSE: there is no element to hide).
MalformedItem(isOpen, t, c) ==
    [active |-> isOpen,
     expanded |-> IF ~t THEN "none" ELSE IF isOpen THEN "true" ELSE "false",
     hidden |-> c /\ ~isOpen, height |-> "", opacity |-> "",
     ariaHidden |-> "none"]

CurOutcome == Outcome(Cur, FALSE)

MalformedCommit(m, call) ==
    /\ items' = m.dom.items
    /\ rafQ' = m.dom.rafQ
    /\ listeners' = m.dom.listeners
    /\ events' = m.dom.events
    /\ openState' = m.dom.openState
    /\ threw' = m.threw
    /\ lastCall' = call
    /\ UNCHANGED <<allowMultiple, parsing, script, onReady, observing, place,
                   records, instance, keydownL, clickL, focus, prevented>>
    /\ UNCHANGED <<widgetVars, optionVars, markupVars, idVars, marker>>

\* new Accordion(element) on markup in which any item may lack its trigger
\* or its content; the instance stays reachable through the registry marker
\* when init() throws.
MalformedInit ==
    \E isOpen \in [Indices -> BOOLEAN], t \in [Indices -> BOOLEAN],
       c \in [Indices -> BOOLEAN], multiple \in BOOLEAN :
        LET s == Dom([i \in Indices |-> MalformedItem(isOpen[i], t[i], c[i])],
                     <<>>, [i \in Indices |-> <<>>], <<>>,
                     [i \in Indices |-> IF isOpen[i] THEN "Opened" ELSE "Closed"])
            m == initThrowing(Outcome(s, FALSE), 0, multiple, t, c)
        IN /\ allowMultiple = multiple
           /\ hasTrigger = t
           /\ hasContent = c
           /\ items = m.dom.items
           /\ rafQ = m.dom.rafQ
           /\ listeners = m.dom.listeners
           /\ events = m.dom.events
           /\ openState = m.dom.openState
           /\ threw = m.threw
           /\ lastCall = Call("construct", -1, FALSE, {})
           /\ parsing = "done"
           /\ script = "ran"
           /\ onReady = FALSE
           /\ observing = TRUE
           /\ place = "markup"
           /\ records = <<>>
           /\ instance = TRUE
           /\ keydownL = 0
           /\ clickL = 0
           /\ focus = -1
           /\ prevented = FALSE
           /\ NoWidget
           /\ NoOptions
           /\ NoIds
           /\ marker = 0

MalformedOpen(index, animate) ==
    LET m == openThrowing(CurOutcome, index, animate, allowMultiple,
                          hasTrigger, hasContent)
    IN /\ WithinBounds(m.dom)
       /\ MalformedCommit(m, Call("open", index, animate, {}))

MalformedClose(index, animate) ==
    LET m == closeThrowing(CurOutcome, index, animate, hasTrigger, hasContent)
    IN /\ WithinBounds(m.dom)
       /\ MalformedCommit(m, Call("close", index, animate, {}))

MalformedFrame ==
    /\ rafQ # <<>>
    /\ MalformedCommit(Outcome(runFrame(Cur), FALSE), Call("frame", -1, FALSE, {}))

MalformedTransitionEnd(index) ==
    /\ listeners[index] # <<>>
    /\ ~items[index].hidden
    /\ MalformedCommit(Outcome(transitionEnd(Cur, index), FALSE),
                       Call("transitionend", index, FALSE,
                            {listeners[index][n] : n \in 1 .. Len(listeners[index])}))

MalformedNext ==
    \/ \E index \in Indices, animate \in BOOLEAN : MalformedOpen(index, animate)
    \/ \E index \in Indices, animate \in BOOLEAN : MalformedClose(index, animate)
    \/ MalformedFrame
    \/ \E index \in Indices : MalformedTransitionEnd(index)

SpecMalformed == MalformedInit /\ [][MalformedNext]_vars

\* ------------------------------------------------------------------------
\* Content ids and aria-controls.

\* The bundle init() transforms when the ids are looked at: the outcome so
\* far, each content's id and each trigger's aria-controls.
WithIds(m, id, controls) == [m |-> m, id |-> id, controls |-> controls]

\* The forEach of init() from item k on, with the ids: a content without id
\* is given a generated one and the trigger's aria-controls is set to the
\* content's id, before the item is opened or closed.
RECURSIVE initIds(_, _, _, _, _)
initIds(b, k, multiple, ht, hc) ==
    IF k >= NItems \/ b.m.threw THEN b
    ELSE IF ~ht[k] \/ ~hc[k] THEN initIds(b, k + 1, multiple, ht, hc)
    ELSE LET id == IF b.id[k] = "none" THEN "generated" ELSE b.id[k]
             isActive == b.m.dom.items[k].active
                           \/ b.m.dom.items[k].expanded = "true"
         IN initIds(
              WithIds(IF isActive
                      THEN openThrowing(b.m, k, FALSE, multiple, ht, hc)
                      ELSE closeThrowing(b.m, k, FALSE, ht, hc),
                      [b.id EXCEPT ![k] = id],
                      [b.controls EXCEPT ![k] = id]),
              k + 1, multiple, ht, hc)

\* setupAccessibility() of the generated widget: getContentId() generates
\* the id on its first call; the trigger's aria-controls and the content's
\* id are both set to it.
setupAccessibility(ids) ==
    [ids EXCEPT !.controls = "generated", !.id = "generated"]

\* this.state and the DOM of a generated widget when its constructor
\* returns, on a root without the is-open and is-disabled classes.
widgetConstructed ==
    [isOpen |-> FALSE, isDisabled |-> FALSE,
     classOpen |-> FALSE, classDisabled |-> FALSE,
     ariaDisabled |-> "none", ariaExpanded |-> "false",
     ariaHidden |-> "true", display |-> ""]

\* A loaded page with either an accordion root whose items have any ids, or
\* the markup of a generated widget with any ids, next to an accordion root
\* without ids; nothing is constructed yet.
IdsInit ==
    /\ \E isOpen \in [Indices -> BOOLEAN], t \in [Indices -> BOOLEAN],
          c \in [Indices -> BOOLEAN], multiple \in BOOLEAN,
          id \in [Indices -> {"none", "page"}],
          controls \in [Indices -> {"none", "page", "stale"}],
          wid \in {"none", "page"}, wcontrols \in {"none", "page", "stale"} :
            /\ \A i \in Indices : ~c[i] => id[i] = "none"
            /\ \A i \in Indices : ~t[i] => controls[i] = "none"
            /\ \/ wid = "none" /\ wcontrols = "none"
               \/ /\ id = [i \in Indices |-> "none"]
                  /\ controls = [i \in Indices |-> "none"]
                  /\ t = [i \in Indices |-> TRUE]
                  /\ c = [i \in Indices |-> TRUE]
                  /\ isOpen = [i \in Indices |-> FALSE]
                  /\ ~multiple
            /\ allowMultiple = multiple
            /\ hasTrigger = t
            /\ hasContent = c
            /\ items = [i \in Indices |-> MalformedItem(isOpen[i], t[i], c[i])]
            /\ openState = [i \in Indices |->
                               IF isOpen[i] THEN "Opened" ELSE "Closed"]
            /\ contentId = id
            /\ ariaControls = controls
            /\ widgetIds = [id |-> wid, controls |-> wcontrols]
    /\ rafQ = <<>>
    /\ listeners = [i \in Indices |-> <<>>]
    /\ events = <<>>
    /\ lastCall = Call("load", -1, FALSE, {})
    /\ parsing = "done"
    /\ script = "ran"
    /\ onReady = FALSE
    /\ observing = TRUE
    /\ place = "markup"
    /\ records = <<>>
    /\ instance = FALSE
    /\ keydownL = 0
    /\ clickL = 0
    /\ focus = -1
    /\ prevented = FALSE
    /\ threw = FALSE
    /\ NoWidget
    /\ NoOptions
    /\ marker = 0

\* new Accordion(element) on the accordion root.
IdsConstruct ==
    /\ ~instance
    /\ LET b == initIds(WithIds(CurOutcome, contentId, ariaControls), 0,
                        allowMultiple, hasTrigger, hasContent)
           d == IF b.m.threw THEN b.m.dom
                ELSE dispatchEvent(b.m.dom, "initialized", -1)
       IN /\ items' = d.items
          /\ rafQ' = d.rafQ
          /\ listeners' = d.listeners
          /\ events' = d.events
          /\ openState' = d.openState
          /\ threw' = b.m.threw
          /\ contentId' = b.id
          /\ ariaControls' = b.controls
    /\ instance' = TRUE
    /\ lastCall' = Call("construct", -1, FALSE, {})
    /\ UNCHANGED <<allowMultiple, parsing, script, onReady, observing, place,
                   records, keydownL, clickL, focus, prevented>>
    /\ UNCHANGED <<widgetIds, widgetVars, optionVars, markupVars, marker>>

\* new Widget(element) on the generated widget's root.
IdsConstructWidget ==
    /\ widgetCall = "none"
    /\ widget' = widgetConstructed
    /\ widgetIds' = setupAccessibility(widgetIds)
    /\ widgetEvents' = <<"initialized">>
    /\ widgetCall' = "construct"
    /\ UNCHANGED <<animated, timers, contentId, ariaControls>>
    /\ UNCHANGED <<accVars, pageVars, optionVars, markupVars, marker>>

IdsNext ==
    \/ IdsConstruct
    \/ \E index \in Indices : instance /\ MalformedOpen(index, FALSE)
    \/ \E index \in Indices : instance /\ MalformedClose(index, FALSE)
    \/ IdsConstructWidget
    \/ widgetCall # "none" /\ WidgetToggle

SpecIds == IdsInit /\ [][IdsNext]_vars

\* ------------------------------------------------------------------------
\* Construction by the page's own code.

\* The items marked active: the active class or aria-expanded "true".
Marked(its) == {i \in Indices : its[i].active \/ its[i].expanded = "true"}

\* The page and the instance the root's marker refers to.
Registered(pg, mk) == [pg |-> pg, marker |-> mk]

CurRegistered == Registered(CurPage, marker)

\* A constructor that returns early on a root that holds a marker.
AccordionRefusing(r, multiple) ==
    IF r.pg.instance THEN r
    ELSE Registered(Accordion(r.pg, "el", multiple), r.pg.clickL + 1)

\* new Accordion(element) on the root: the marker is written whatever it
\* held, then init() runs.  The instance built is the next in number.
AccordionOnRoot(r, multiple) ==
    Registered(Accordion(r.pg, "el", multiple), r.pg.clickL + 1)

\* initAccordions() on the document that holds the root.
scanDocument(r, multiple) ==
    IF r.pg.instance THEN r ELSE AccordionOnRoot(r, multiple)

\* element._accordionInstance.destroy()
destroyRegistered(r) == Registered(destroy(r.pg), 0)

\* handleKeydown(event) where item k has a trigger iff ht[k].  Target NItems
\* is an element of the trigger class that is the first trigger of no item
\* of the instance, so that triggers.indexOf(target) is -1; the result tells
\* also whether the handler threw (focus() of undefined or null).
handleKeydownThrowing(f, key, target, ht) ==
    IF target \notin 0 .. NItems \/ key \notin {"ArrowDown", "ArrowUp", "Home", "End"}
    THEN [focus |-> f, prevented |-> FALSE, threw |-> FALSE]
    ELSE LET currentIndex == IF target \in Indices /\ ht[target] THEN target ELSE -1
             dest == IF key = "ArrowDown" THEN (currentIndex + 1) % NItems
                     ELSE IF key = "ArrowUp"
                          THEN IF currentIndex = 0 THEN NItems - 1
                               ELSE currentIndex - 1
                     ELSE IF key = "Home" THEN 0
                     ELSE NItems - 1
         IN IF dest \in Indices /\ ht[dest]
            THEN [focus |-> dest, prevented |-> TRUE, threw |-> FALSE]
            ELSE [focus |-> f, prevented |-> TRUE, threw |-> TRUE]

DirectCommit(r, call) == PageWrite(r.pg, call) /\ marker' = r.marker

\* The document is loaded and holds the root, whose items carry any marks;
\* no instance was constructed yet.
DirectInit ==
    /\ allowMultiple \in BOOLEAN
    /\ items \in [Indices -> MarkupItem]
    /\ rafQ = <<>>
    /\ listeners = [i \in Indices |-> <<>>]
    /\ events = <<>>
    /\ openState = [i \in Indices |-> "Closed"]
    /\ lastCall = Call("load", -1, FALSE, {})
    /\ parsing = "done"
    /\ script = "ran"
    /\ onReady = FALSE
    /\ observing = TRUE
    /\ place = "markup"
    /\ records = <<>>
    /\ instance = FALSE
    /\ keydownL = 0
    /\ clickL = 0
    /\ focus = -1
    /\ prevented = FALSE
    /\ threw = FALSE
    /\ NoWidget
    /\ NoOptions
    /\ WellFormed
    /\ NoIds
    /\ marker = 0

\* The page calls new Accordion(root); lastCall records the items the
\* constructor found marked active.
DirectConstruct ==
    /\ clickL < MaxLives
    /\ DirectCommit(AccordionOnRoot(CurRegistered, allowMultiple),
                    Call("construct", -1, FALSE, Marked(items)))
    /\ UNCHANGED <<parsing, script, onReady, observing, place, records, focus,
                   prevented>>

\* The page calls initAccordions().
DirectScan ==
    /\ instance \/ clickL < MaxLives
    /\ DirectCommit(scanDocument(CurRegistered, allowMultiple),
                    Call("scan", -1, FALSE,
                         IF instance THEN {} ELSE Marked(items)))
    /\ UNCHANGED <<parsing, script, onReady, observing, place, records, focus,
                   prevented>>

\* The page calls destroy() on the instance registered on the root.
DirectDestroy ==
    /\ instance
    /\ DirectCommit(destroyRegistered(CurRegistered),
                    Call("destroy", -1, FALSE, {}))
    /\ UNCHANGED <<parsing, script, onReady, observing, place, records, focus,
                   prevented>>

\* A keydown event of the given key on the focused element reaches the root:
\* every keydown listener of the root runs its instance's handler, and all
\* of them come to the same result.
DirectKeyDown(key) ==
    /\ LET r == IF keydownL > 0
                THEN handleKeydownThrowing(focus, key, focus, hasTrigger)
                ELSE [focus |-> focus, prevented |-> FALSE, threw |-> FALSE]
       IN /\ focus' = r.focus
          /\ prevented' = r.prevented
          /\ PageCommit([CurPage EXCEPT !.threw = r.threw],
                        Call("keydown", focus, FALSE, {key}))
    /\ UNCHANGED <<parsing, script, onReady, observing, place, records>>

\* Clicks, focus and keys are followed from the first construction on: before
\* it no listener of the widget is there to receive them.
DirectNext ==
    \/ DirectConstruct
    \/ DirectScan
    \/ DirectDestroy
    \/ \E index \in Indices : clickL > 0 /\ ClickTrigger(index)
    \/ \E target \in (-1) .. NItems : clickL > 0 /\ Focus(target)
    \/ \E key \in Keys : clickL > 0 /\ DirectKeyDown(key)

SpecDirect == DirectInit /\ [][DirectNext]_vars

\* ------------------------------------------------------------------------
\* Properties.

Expanded(i) == items[i].expanded = "true"
ExpandedSet == {i \in Indices : Expanded(i)}
InRange(call) == call.index \in Indices

\* What an observer reads of the open/closed state of the items of s.
Observable(s) ==
    [i \in Indices |->
        <<s.items[i].expanded, s.items[i].active, s.items[i].hidden>>]

\* C1: in every state (so right after every open, close or click, animated
\* or not) the trigger of each item has aria-expanded "true" exactly when the
\* item is Opening or Open, that is when the last open/close applied to it,
\* directly or by cascade, was an open; the active class agrees.
C1_AriaMatchesOpenState ==
    \A i \in Indices :
        /\ Expanded(i) <=> openState[i] = "Opened"
        /\ items[i].active <=> openState[i] = "Opened"

\* An animated open of item 0 has just closed item 1 by cascade.
C1_Witness ==
    /\ ~allowMultiple
    /\ lastCall = Call("open", 0, TRUE, {})
    /\ Expanded(0)
    /\ openState[1] = "Closing"
    /\ ~Expanded(1)

\* C2: with allowMultiple false at most one item has aria-expanded "true",
\* after construction and after every later step.
C2_AtMostOneExpanded == ~allowMultiple => Cardinality(ExpandedSet) <= 1

\* Item 1 has just been opened with animation while item 0 was open: item 0
\* is closed but still rendered, item 1 is open.
C2_Witness ==
    /\ ~allowMultiple
    /\ lastCall.op = "open" /\ lastCall.index = 1 /\ lastCall.animate
    /\ ExpandedSet = {1}
    /\ ~items[0].hidden /\ items[0].height = "Hpx"

\* C3: with allowMultiple true, open(i) leaves every other item's DOM state
\* as it was, schedules callbacks for item i only, and dispatches the opened
\* event of item i and nothing else.
C3_OpenTouchesOnlyTarget ==
    allowMultiple =>
        \A i \in Indices, animate \in BOOLEAN :
            LET s == open(Cur, i, animate, allowMultiple)
            IN /\ \A j \in Indices \ {i} :
                     /\ s.items[j] = items[j]
                     /\ s.listeners[j] = listeners[j]
               /\ \A n \in 1 .. Len(s.rafQ) : n > Len(rafQ) => s.rafQ[n].item = i
               /\ \A n \in 1 .. Len(rafQ) : s.rafQ[n] = rafQ[n]
               /\ s.events = <<Event("opened", i)>>

\* Item 1 has just been opened while item 0 was open, and both are open.
C3_Witness ==
    /\ allowMultiple
    /\ lastCall.op = "open" /\ lastCall.index = 1
    /\ ExpandedSet = {0, 1}
    /\ events = <<Event("opened", 1)>>

\* C4: the content of an item is never hidden while its trigger has
\* aria-expanded "true", whatever the interleaving of calls, frames and
\* transitionend events.
C4_ExpandedNeverHidden == \A i \in Indices : Expanded(i) => ~items[i].hidden

\* The listener of a close has just run, together with the listener of the
\* open that followed it before the transition ended, and the content of the
\* re-opened item is not hidden.
C4_Witness ==
    /\ lastCall.op = "transitionend"
    /\ lastCall.fired = {"close", "open"}
    /\ Expanded(lastCall.index)
    /\ ~items[lastCall.index].hidden

C6_NonAnimatedCommit ==
    /\ (lastCall.op = "close" /\ InRange(lastCall) /\ ~lastCall.animate)
          => items[lastCall.index].hidden
    /\ (lastCall.op = "open" /\ InRange(lastCall) /\ ~lastCall.animate)
          => /\ ~items[lastCall.index].hidden
             /\ items[lastCall.index].ariaHidden = "false"

\* C7: a second open(i) with the same animate flag leaves aria-expanded, the
\* active class and the hidden flag of every item as the first left them,
\* both at once and after every pending frame callback and transitionend
\* listener has run.
C7_OpenTwiceAsOnce ==
    (lastCall.op = "open" /\ InRange(lastCall)) =>
        LET once == Cur
            twice == open(once, lastCall.index, lastCall.animate, allowMultiple)
        IN /\ Observable(twice) = Observable(once)
           /\ Observable(settle(twice)) = Observable(settle(once))

\* Two animated open(0) calls have run in succession.
C7_Witness ==
    /\ lastCall = Call("open", 0, TRUE, {})
    /\ Len(rafQ) = 2
    /\ \A n \in 1 .. 2 : rafQ[n].kind = "open" /\ rafQ[n].item = 0

\* An item at rest in the Open state: expanded, rendered, nothing pending.
AtRest(i) ==
    /\ listeners[i] = <<>>
    /\ \A n \in 1 .. Len(rafQ) : rafQ[n].item # i
    /\ items[i].height = "" /\ items[i].opacity = ""

\* C8 (as claimed): open(i) on an item that is open and close(i) on an item
\* that is closed change no DOM state, dispatch no event, schedule no frame
\* callback and register no listener.
C8_TerminalStateNoOp ==
    [][ /\ lastCall'.op \in {"open", "close"}
        /\ InRange(lastCall')
        /\ AtRest(lastCall'.index)
        /\ \/ lastCall'.op = "open" /\ Expanded(lastCall'.index)
                /\ ~items[lastCall'.index].hidden
           \/ lastCall'.op = "close" /\ ~Expanded(lastCall'.index)
                /\ items[lastCall'.index].hidden
        => /\ UNCHANGED <<items, rafQ, listeners>>
           /\ events' = <<>> ]_vars

\* C9: open and close with an index outside 0 .. items.length-1 change
\* nothing: no item state, no pending callback, no event, and no cascade.
C9_OutOfRangeIgnored ==
    \A index \in IndexArgs \ Indices, animate \in BOOLEAN :
        /\ open(Cur, index, animate, allowMultiple) = Cur
        /\ close(Cur, index, animate) = Cur

\* open(items.length) has just returned on a single-open accordion with an
\* open item: the item is still open and no event was dispatched.
C9_Witness ==
    /\ ~allowMultiple
    /\ lastCall.op = "open" /\ lastCall.index = NItems
    /\ ExpandedSet # {}
    /\ events = <<>>

\* The number of events of ev equal to e.
Count(ev, e) == Cardinality({n \in 1 .. Len(ev) : ev[n] = e})

\* C10 (as claimed): with allowMultiple false, open(i) dispatches one closed
\* event for each other item that was open before the call, none for an
\* item that was already closed, and then one opened event for item i.
C10_CascadeEvents ==
    [][ (~allowMultiple /\ lastCall'.op = "open" /\ InRange(lastCall'))
        => /\ events' # <<>>
           /\ events'[Len(events')] = Event("opened", lastCall'.index)
           /\ Count(events', Event("opened", lastCall'.index)) = 1
           /\ \A j \in Indices \ {lastCall'.index} :
                 Count(events', Event("closed", j)) = IF Expanded(j) THEN 1 ELSE 0
           /\ Len(events') = 1 + Cardinality(ExpandedSet \ {lastCall'.index}) ]_vars

\* The observations of s are of the value the call named writes: "true" and
\* the active class for an open, "false" and no active class for a close.
SeenNewValue(s) ==
    \A n \in 1 .. Len(s.seen) :
        LET o == s.seen[n]
        IN /\ o.what \in {"opened", "frame-open"}
                 => o.expanded = "true" /\ o.active
           /\ o.what \in {"closed", "frame-close"}
                 => o.expanded = "false" /\ ~o.active

Cleared(it) == it.height = "" /\ it.opacity = ""

\* C20: open(i, false) and close(i, false) leave the frame queue and the
\* transitionend listeners as they were and return with the terminal state
\* committed: after open the content of item i is shown and, with
\* allowMultiple false, every other content is hidden; after close the
\* content of item i is hidden; in each case with inline height and
\* opacity cleared.
C20_NonAnimatedSynchronous ==
    [](\A i \in Indices :
           LET so == open(Cur, i, FALSE, allowMultiple)
               sc == close(Cur, i, FALSE)
           IN /\ so.rafQ = rafQ /\ so.listeners = listeners
              /\ ~so.items[i].hidden /\ Cleared(so.items[i])
              /\ ~allowMultiple =>
                    \A j \in Indices \ {i} :
                        so.items[j].hidden /\ Cleared(so.items[j])
              /\ \A n \in 1 .. Len(so.seen) :
                    so.seen[n].what \in {"opened", "closed"}
              /\ sc.rafQ = rafQ /\ sc.listeners = listeners
              /\ sc.items[i].hidden /\ Cleared(sc.items[i])
              /\ \A n \in 1 .. Len(sc.seen) : sc.seen[n].what = "closed")

\* open(1, false) has just returned on a single-open accordion while item 0
\* was opening: item 0 is hidden with its styles cleared, and the callbacks
\* queued are those the animated open of item 0 had requested.
C20_Witness ==
    /\ ~allowMultiple
    /\ lastCall = Call("open", 1, FALSE, {})
    /\ items[0].hidden /\ Cleared(items[0])
    /\ ~items[1].hidden /\ Cleared(items[1])
    /\ listeners = [j \in Indices |-> <<>>]
    /\ \E n \in 1 .. Len(rafQ) : rafQ[n].kind = "open" /\ rafQ[n].item = 0
    /\ \A n \in 1 .. Len(rafQ) : rafQ[n].kind = "open" => rafQ[n].item = 0

\* The frame callbacks a cascade from open(index, animate) requests, from
\* item k on: one close callback per other item, in item order, when animate.
RECURSIVE cascadeCallbacks(_, _, _)
cascadeCallbacks(index, animate, k) ==
    IF k >= NItems THEN <<>>
    ELSE (IF k # index /\ animate
          THEN <<[kind |-> "close", item |-> k, height |-> "0px"]>>
          ELSE <<>>) \o cascadeCallbacks(index, animate, k + 1)

\* C24: with allowMultiple false, open(i, animate) closes every other item
\* before it writes item i: when each closed event is dispatched and each
\* close callback is requested, item i is as it was before the call, and
\* these precede the opened event; every other item ends as close(j,
\* animate) with the same flag leaves it, with a frame callback requested
\* exactly when animate is true.
C24_CascadeBeforeTarget ==
    [](~allowMultiple =>
           \A i \in Indices, animate \in BOOLEAN :
               LET s == open(Cur, i, animate, allowMultiple)
                   first == CHOOSE n \in 1 .. Len(s.seen) :
                               s.seen[n].index = i
                   cb == [kind |-> "open", item |-> i, height |-> "Hpx"]
                   own == IF animate THEN <<cb>> ELSE <<>>
               IN /\ \A n \in 1 .. Len(s.seen) :
                        s.seen[n].index # i =>
                           /\ s.seen[n].what \in {"closed", "frame-close"}
                           /\ s.seen[n].dom[i] = items[i]
                           /\ n < first
                  /\ \A j \in Indices \ {i} :
                        /\ s.items[j] = close(Cur, j, animate).items[j]
                        /\ Count(s.events, Event("closed", j)) = 1
                  /\ s.rafQ = rafQ \o cascadeCallbacks(i, animate, 0) \o own)

\* An animated open(1) has just closed the open item 0 with animation and
\* then opened item 1: closed(0) came before opened(1) and the close callback
\* of item 0 is queued before the open callback of item 1.
C24_Witness ==
    /\ ~allowMultiple
    /\ lastCall = Call("open", 1, TRUE, {})
    /\ events = <<Event("closed", 0), Event("opened", 1)>>
    /\ Len(rafQ) = 2
    /\ rafQ[1].kind = "close" /\ rafQ[1].item = 0
    /\ rafQ[2].kind = "open" /\ rafQ[2].item = 1
    /\ items[0].height = "Hpx" /\ ~items[0].hidden
    /\ openState[0] = "Closing"

\* C26 (as claimed): right after an animated open(i) that found a close
\* listener pending on the content, that listener, run at the next
\* transitionend with aria-expanded "true", leaves the content's hidden
\* flag, inline height and inline opacity as the open set them.
C26_StaleCloseIsNoOp ==
    \A i \in Indices :
        (/\ lastCall = Call("open", i, TRUE, {})
         /\ listeners[i] # <<>>
         /\ Head(listeners[i]) = "close"
         /\ Expanded(i))
        => closeEnded(Cur, i).items[i] = items[i]

\* C27: an open listener that runs on the content of an item whose trigger
\* says closed clears an inline height that the later close has set; and
\* the state in which it does so, with the open listener and the close
\* listener both pending on the same content, is reachable (C27_Witness), so
\* "at most one listener pending per item" is no invariant.
C27_OpenListenerClearsCloseHeight ==
    \A i \in Indices :
        (/\ \E n \in 1 .. Len(listeners[i]) : listeners[i][n] = "open"
         /\ ~Expanded(i)
         /\ ~items[i].hidden)
        => /\ items[i].height \in {"Hpx", "0px"}
           /\ openEnded(Cur, i).items[i].height = ""
           /\ openEnded(Cur, i).items[i].hidden = items[i].hidden

\* Item 0 was opened and then closed, both animated, with a frame after
\* each and no transitionend in between: the open listener and the close
\* listener are pending on its content, whose height the close callback has
\* set to 0px.
C27_Witness ==
    /\ listeners[0] = <<"open", "close">>
    /\ rafQ = <<>>
    /\ ~Expanded(0)
    /\ ~items[0].hidden
    /\ items[0].height = "0px"
    /\ openState[0] = "Closing"

\* C30: a click on the trigger of item i calls close(i) when aria-expanded
\* is "true" and open(i) otherwise, both animated, so it inverts
\* aria-expanded of item i, whatever frame callbacks and transitionend
\* listeners are pending.
C30_ClickInverts ==
    [](\A i \in Indices :
           LET s == handleClick(Cur, i, allowMultiple)
           IN /\ (s.items[i].expanded = "true") # Expanded(i)
              /\ Expanded(i) => s = close(Cur, i, TRUE)
              /\ ~Expanded(i) => s = open(Cur, i, TRUE, allowMultiple))

\* Item 0 has just been closed with animation while the listener of its
\* open was still pending and before the frame of the close has run.
C30_Witness ==
    /\ lastCall = Call("close", 0, TRUE, {})
    /\ listeners[0] = <<"open">>
    /\ Len(rafQ) = 1 /\ rafQ[1].kind = "close" /\ rafQ[1].item = 0
    /\ ~Expanded(0)

\* C28 (as claimed), its last part: once the listener of an animated close
\* has committed hidden on the content of item i and cleared its inline
\* height and opacity, they stay so in every step that is not an open.
C28_ClosedStaysCommitted ==
    [][ \A i \in Indices :
          (/\ lastCall.op = "transitionend"
           /\ lastCall.index = i
           /\ "close" \in lastCall.fired
           /\ items[i].hidden /\ Cleared(items[i])
           /\ ~Expanded(i)
           /\ lastCall'.op # "open")
          => items'[i].hidden /\ Cleared(items'[i]) ]_vars

\* ------------------------------------------------------------------------
\* Properties of the page.

Initialized == Event("initialized", -1)

\* C11 (as claimed): once the document is loaded and the mutation watch has
\* handled the insertion of the root under document.body, as the inserted
\* node itself or inside an inserted wrapper, the root holds a registered
\* instance (whose construction dispatched initialized).
C11_InsertedRootInitialized ==
    (lastCall.op = "deliver" /\ parsing = "done") => instance

\* The places a scan may be rooted at, and the batches of added nodes the
\* observer may be called with.
ScanRoots == {"document", "wrapper", "el"}
Batches == {<<>>} \cup {<<a>> : a \in ScanRoots}
             \cup {<<a, b>> : a \in ScanRoots, b \in ScanRoots}

\* C12: while the root holds an instance, a scan rooted anywhere and an
\* observer callback on any batch of added nodes construct nothing: the
\* registry marker, the listeners and the DOM stay as they are and no event
\* is dispatched; so a root with an instance has exactly one keydown
\* listener, whatever scans have run.
C12_ScanSkipsRegistered ==
    /\ instance =>
          /\ \A root \in ScanRoots :
                initAccordions(CurPage, root, place, allowMultiple) = CurPage
          /\ \A recs \in Batches :
                observerCallback(CurPage, recs, place, allowMultiple) = CurPage
    /\ keydownL = IF instance THEN 1 ELSE 0

\* initAccordions() has just returned on a root constructed earlier, and
\* dispatched nothing.
C12_Witness ==
    /\ lastCall.op = "scan"
    /\ instance
    /\ clickL = 1
    /\ events = <<>>

\* C13: right after destroy() the root holds no instance, and a scan of the
\* document the root is part of constructs one: the marker is set again, a
\* keydown listener is registered and initialized is dispatched once.
C13_DestroyThenScan ==
    lastCall.op = "destroy" =>
        /\ ~instance
        /\ place # "detached" =>
              LET pg == initAccordions(CurPage, "document", place, allowMultiple)
              IN /\ pg.instance
                 /\ pg.keydownL = 1
                 /\ Count(pg.dom.events, Initialized) = 1

\* The scan that followed a destroy() has constructed the second instance
\* of the root.
C13_Witness ==
    /\ lastCall.op = "scan"
    /\ instance
    /\ clickL = 2
    /\ Count(events, Initialized) = 1

\* C14 (as claimed): a click on a trigger of a root that holds no instance,
\* its instance destroyed or never constructed, dispatches no event.
C14_DestroyedIgnoresClick ==
    (lastCall.op = "click" /\ ~instance) => events = <<>>

\* C15: new Accordion(null) throws and leaves the page as it was: no
\* instance registered, no listener added, no DOM write, no event.
C15_NullRootThrows ==
    /\ Accordion(CurPage, "null", allowMultiple) = [CurPage EXCEPT !.threw = TRUE]
    /\ lastCall = Call("construct", -1, FALSE, {"null"}) =>
          /\ threw
          /\ events = <<>>

\* new Accordion(null) has thrown on a page whose root was never
\* constructed.
C15_Witness ==
    /\ lastCall = Call("construct", -1, FALSE, {"null"})
    /\ threw
    /\ ~instance
    /\ clickL = 0 /\ keydownL = 0

\* The key of a keydown step.
KeyOf(call) == CHOOSE key \in Keys : call.fired = {key}

C17_ToggleAndEscapeKeys ==
    [][ (lastCall'.op = "keydown" /\ keydownL > 0)
        => /\ (KeyOf(lastCall') \in {"Enter", " "} /\ focus \in Indices)
                 => (items'[focus].expanded = "true") # Expanded(focus)
           /\ KeyOf(lastCall') = "Escape"
                 => \A i \in Indices : items'[i].expanded # "true"
           /\ KeyOf(lastCall') = "a" => UNCHANGED items ]_vars

\* C22 (as claimed): the mutation watch is on document.body only once the
\* document is ready: a script that runs while the document is loading
\* installs it at DOMContentLoaded, so it is never installed while the
\* document is loading and is installed once the document is ready and the
\* script has run.
C22_WatchInstalledWhenReady ==
    /\ observing => parsing = "done"
    /\ (script # "pending" /\ parsing = "done") => observing

\* C23 (as claimed): destroy() dispatches exactly one destroyed event on the
\* root.
C23_DestroyEmitsDestroyed ==
    lastCall.op = "destroy" => Count(events, Event("destroyed", -1)) = 1

\* ------------------------------------------------------------------------
\* Properties of the generated widget.

\* C18: while state.isDisabled is set, open() changes nothing and dispatches
\* nothing, and so does toggle() on a closed widget; close() on an open
\* widget closes it and dispatches closed whether the widget is disabled or
\* not; and while state.isDisabled is clear, as after enable(), open() on a
\* closed widget opens it and dispatches opened.
C18_DisabledRefusesOpen ==
    /\ widget.isDisabled =>
          /\ widgetOpen(CurWidget, animated) = CurWidget
          /\ ~widget.isOpen => widgetToggle(CurWidget, animated) = CurWidget
    /\ widget.isOpen =>
          LET b == widgetClose(CurWidget, animated)
          IN /\ ~b.w.isOpen
             /\ b.w.ariaExpanded = "false"
             /\ b.events = <<"closed">>
    /\ (~widget.isDisabled /\ ~widget.isOpen) =>
          LET b == widgetOpen(CurWidget, animated)
          IN /\ b.w.isOpen
             /\ b.w.ariaExpanded = "true"
             /\ b.events = <<"opened">>
    /\ (widgetCall = "open" /\ widget.isDisabled) => widgetEvents = <<>>
    /\ widgetCall = "disable" => widget.isDisabled
    /\ widgetCall = "enable" => ~widget.isDisabled

\* close() has just closed a widget that was disabled while open.
C18_Witness ==
    /\ widgetCall = "close"
    /\ widget.isDisabled
    /\ ~widget.isOpen
    /\ widgetEvents = <<"closed">>

\* ------------------------------------------------------------------------
\* Properties of the option handling.

\* The options each constructor defines.
OptionsOf(ctor) ==
    IF ctor = "accordion" THEN {"allowMultiple"}
    ELSE IF ctor = "widget" THEN {"animated", "keyboard", "closeOnOutsideClick"}
    ELSE {}

\* The value of option o that the data attribute alone stands for:
\* allowMultiple and closeOnOutsideClick are on only for "true", animated and
\* keyboard are off only for "false".
FromData(o, value) ==
    IF o \in {"allowMultiple", "closeOnOutsideClick"}
    THEN (IF value = "true" THEN "true" ELSE "false")
    ELSE (IF value = "false" THEN "false" ELSE "true")

C29_NeverHiddenWhileOpen ==
    /\ (animated /\ widget.isOpen) => widget.display # "none"
    /\ timers > 0 =>
          timeout(CurWidget).w =
              IF widget.isOpen THEN widget
              ELSE [widget EXCEPT !.display = "none"]

\* The timer of a close() has just fired on an animated widget that was
\* opened again in the meantime: the content is still displayed.
C29_Witness ==
    /\ animated
    /\ widgetCall = "timeout"
    /\ widget.isOpen
    /\ widget.display = "block"

\* ------------------------------------------------------------------------
\* Properties of calls on items without trigger or content.

\* The three attributes of an item the claim speaks of.
Triple(it) == <<it.active, it.expanded, it.hidden>>

\* Item k of after is wholly in the state that an open (isOpen) or a close
\* of it commits at once: the attributes of elements that exist have the
\* new value (an animated close leaves hidden to its listener).
WhollyNew(after, k, isOpen, animate) ==
    /\ after[k].active = isOpen
    /\ hasTrigger[k] => after[k].expanded = (IF isOpen THEN "true" ELSE "false")
    /\ (hasContent[k] /\ (isOpen \/ ~animate)) => after[k].hidden = ~isOpen

\* C25 (as claimed): when open(i, animate) or close(i, animate) throws, every
\* item has its active class, aria-expanded and hidden flag either all as
\* before the call or all in the state the call commits for it.
C25_AllOrNothing ==
    \A i \in Indices, animate \in BOOLEAN :
        LET mo == openThrowing(CurOutcome, i, animate, allowMultiple,
                               hasTrigger, hasContent)
            mc == closeThrowing(CurOutcome, i, animate, hasTrigger, hasContent)
        IN /\ mo.threw =>
                 \A k \in Indices :
                     \/ Triple(mo.dom.items[k]) = Triple(items[k])
                     \/ WhollyNew(mo.dom.items, k, k = i, animate)
           /\ mc.threw =>
                 \A k \in Indices :
                     \/ Triple(mc.dom.items[k]) = Triple(items[k])
                     \/ WhollyNew(mc.dom.items, k, FALSE, animate)

\* ------------------------------------------------------------------------
\* Properties of the ids.

\* C31 (as claimed): a constructor leaves a content's existing id as it is,
\* gives an id to every content that has none, and leaves the aria-controls
\* of every trigger it manages (accordion: an item with both trigger and
\* content) equal to the id of its content; no later step changes an id or
\* an aria-controls.
C31_IdsAssignedOnce ==
    [][/\ (~instance /\ instance') =>
             \A i \in Indices :
                 /\ contentId[i] # "none" => contentId'[i] = contentId[i]
                 /\ hasContent[i] => contentId'[i] # "none"
                 /\ (hasTrigger[i] /\ hasContent[i])
                       => ariaControls'[i] = contentId'[i]
       /\ (widgetCall = "none" /\ widgetCall' = "construct") =>
             /\ widgetIds.id # "none" => widgetIds'.id = widgetIds.id
             /\ widgetIds'.id # "none"
             /\ widgetIds'.controls = widgetIds'.id
       /\ (instance /\ instance') =>
             contentId' = contentId /\ ariaControls' = ariaControls
       /\ (widgetCall # "none") => widgetIds' = widgetIds]_vars

\* ------------------------------------------------------------------------
\* Properties of construction by the page's own code.

\* C32: new Accordion(root) on a root that holds a registered instance is not
\* rejected: it does not throw, it builds one more instance, the root's
\* marker refers to the new instance instead of the one it held, one more
\* click listener sits on each trigger and one more keydown listener on the
\* root; a click on a trigger is then handled once by every instance built,
\* each of them dispatching one opened or closed event for the item.
C32_ConstructionNotRechecked ==
    [][/\ (instance /\ lastCall'.op = "construct") =>
              /\ ~threw'
              /\ instance'
              /\ marker' = clickL + 1
              /\ marker' # marker
              /\ clickL' = clickL + 1
              /\ keydownL' = keydownL + 1
       /\ \A i \in Indices :
              lastCall' = Call("click", i, TRUE, {}) =>
                  Count(events', Event("opened", i))
                      + Count(events', Event("closed", i)) = clickL]_vars

\* Two instances are live on the root, the second built by the last call,
\* and one of them only is registered.
C32_Witness ==
    /\ lastCall.op = "construct"
    /\ marker = 2
    /\ clickL = 2
    /\ keydownL = 2

\* The states a widget's root and content may be in.
WidgetStates ==
    [isOpen : BOOLEAN, isDisabled : BOOLEAN, classOpen : BOOLEAN,
     classDisabled : BOOLEAN, ariaDisabled : {"none", "true"},
     ariaExpanded : {"true", "false"}, ariaHidden : {"true", "false"},
     display : {"", "block", "none"}]

\* C33: destroy() changes no item's aria-expanded, active class, hidden flag
\* or inline height and opacity; the generated widget's destroy() changes
\* neither its open state nor its classes, ARIA attributes and display.
C33_DestroyKeepsVisualState ==
    /\ [][lastCall'.op = "destroy" => items' = items]_vars
    /\ [](\A w \in WidgetStates, n \in 0 .. MaxTimers :
              widgetDestroy(WidgetBundle(w, n, <<>>)).w = w)

\* destroy() has just run on an accordion with an open item.
C33_Witness ==
    /\ lastCall.op = "destroy"
    /\ ~instance
    /\ \E i \in Indices : Expanded(i) /\ items[i].active /\ ~items[i].hidden

\* C34: when an accordion with allowMultiple false is constructed from
\* markup in which several items are marked active, exactly one item is open
\* after the construction, and it is the first marked item in document order.
C34_FirstMarkedStaysOpen ==
    (/\ lastCall.op \in {"construct", "scan"}
     /\ ~allowMultiple
     /\ Cardinality(lastCall.fired) >= 2) =>
        LET first == CHOOSE i \in lastCall.fired :
                         \A j \in lastCall.fired : i <= j
        IN \A i \in Indices :
               /\ Expanded(i) <=> i = first
               /\ items[i].active <=> i = first
               /\ items[i].hidden <=> i # first

\* The first construction on the root found the last two items marked
\* active, and the first of the two is the one open.
C34_Witness ==
    /\ lastCall.op = "construct"
    /\ ~allowMultiple
    /\ marker = 1
    /\ lastCall.fired = {NItems - 2, NItems - 1}
    /\ Expanded(NItems - 2)
    /\ ~Expanded(NItems - 1)

\* C35 (as claimed): after destroy() and the root's re-initialization by a
\* scan, one click on a trigger changes the item's aria-expanded exactly once
\* and dispatches exactly one opened or closed event for the item.  On the
\* page of SpecPage only scans construct, so a registered root whose triggers
\* hold two click listeners or more was destroyed and scanned again.
C35_OneClickOneToggle ==
    [][\A i \in Indices :
           (/\ instance
            /\ clickL >= 2
            /\ lastCall' = Call("click", i, TRUE, {})) =>
               /\ (items'[i].expanded = "true") # Expanded(i)
               /\ Count(events', Event("opened", i))
                      + Count(events', Event("closed", i)) = 1]_vars

\* ------------------------------------------------------------------------
\* Properties of callbacks left over from an animated call.

\* C36 (as claimed): after open(i, false) or close(i, false) the inline height
\* and opacity of item i's content stay cleared when a frame callback or a
\* transitionend listener scheduled by an earlier animated call runs.  The
\* formula looks at the step that follows the non-animated call.
C36_ClearedStylesPersist ==
    [][\A i \in Indices :
           (/\ lastCall \in {Call("open", i, FALSE, {}),
                             Call("close", i, FALSE, {})}
            /\ lastCall'.op \in {"frame", "transitionend"}) =>
               /\ items'[i].height = ""
               /\ items'[i].opacity = ""]_vars

\* ------------------------------------------------------------------------
\* Properties of failing calls.

\* C37 (as claimed): when the constructor throws, also from inside init(), the
\* root is left without element._accordionInstance, the property a later
\* scan tests before it constructs.
C37_ThrowingConstructorUnregisters ==
    (lastCall.op = "construct" /\ threw) => ~instance

\* C38 (as claimed): a keydown whose target carries the trigger class is
\* ignored or moves focus to one of the instance's triggers, and its handler
\* never throws, also when the target is the trigger of no item of the
\* instance.
C38_KeydownNeverThrows ==
    lastCall.op = "keydown" =>
        /\ ~threw
        /\ prevented => focus \in Indices

\* ------------------------------------------------------------------------
\* Properties of the generated widget's views of its open state.

\* C39 (as claimed): after construction and after every operation of the
\* widget, state.isOpen is true iff the root has the class is-open iff the
\* trigger's aria-expanded is "true" iff the content's aria-hidden is "false".
C39_OpenViewsAgree ==
    /\ widget.isOpen <=> widget.classOpen
    /\ widget.isOpen <=> widget.ariaExpanded = "true"
    /\ widget.isOpen <=> widget.ariaHidden = "false"

====
